---- MODULE Spec2Model ----
(***************************************************************************)
(* TransactionSender of near-api-js (transaction_sender.ts): access-key    *)
(* resolution with the per-sender cache, signing, the retry loop around    *)
(* provider.sendTransaction and the final status decision.  Several        *)
(* signAndSendTransaction calls run interleaved on one sender; every       *)
(* `await` of the source is a point where another call may run.            *)
(* The provider, the signer and the ledger behind them are the             *)
(* environment.                                                            *)
(***************************************************************************)
EXTENDS Integers, Sequences, FiniteSets, TLC

\* transaction_sender.ts:13
TX_NONCE_RETRY_NUMBER == 12

\* transaction_sender.ts:16, in milliseconds
TX_NONCE_RETRY_WAIT == 500

\* Mutant: the first two arguments of exponentialBackoff swapped.
RetryNumberSwappedWithWait == TX_NONCE_RETRY_WAIT

\* Line 85: the retryNumber argument handed to exponentialBackoff.
RetryNumber == TX_NONCE_RETRY_NUMBER

\* Largest nonce the ledger of the model reaches.
MaxNonce == 1

\* The signAndSendTransaction calls that may run on the one sender.
Broadcasts == {"b1", "b2"}

\* Public keys (publicKey.toString()) the signer may hold for the account.
Keys == {"ed25519:k1"}

\* signer.getPublicKey found nothing.
NoKey == "null"

\* The JavaScript value undefined / null, for fields that hold strings.
UNDEF == "undefined"

\* No value yet (a query nobody answered, an access key not resolved).
NoAnswer == -1

\* findAccessKey returned null (line 185).
NoAccessKey == -2

\* error.type of the errors provider.block and the external signTransaction
\* fail with where two calls are interleaved step by step.
LookupErrTypes == {"TimeoutError"}

\* error.type of the errors the provider's access-key query may fail with.
QueryErrTypes == {"AccessKeyDoesNotExist", "TimeoutError"}

\* error.type of the errors the provider's calls may fail with.
ErrTypes == {"InvalidNonce", "Expired", "TimeoutError"}

\* error.type of the errors the signing phase of one call that is followed
\* alone is made to fail with: the types the catch block of lines 91-100
\* looks for are among them.
SigningErrTypes == ErrTypes

\* The same for the access-key query.
SigningQueryErrTypes == {"AccessKeyDoesNotExist"} \cup SigningErrTypes

\* Values of Failure.error_message and Failure.error_type: missing, the
\* empty string, a non-empty string.
MessageValues == {UNDEF, "", "boom"}

TypeValues == {UNDEF, "", "GuestPanic"}

\* result.status as the provider may return it: a basic status string
\* (typeof is not 'object'), an object without Failure, an object whose
\* Failure is null, an object whose Failure is an object.
Statuses ==
    { [tag |-> t, error_message |-> UNDEF, error_type |-> UNDEF] :
        t \in {"Basic", "SuccessValue", "FailureNull"} }
    \cup
    { [tag |-> "Failure", error_message |-> m, error_type |-> t] :
        m \in MessageValues, t \in TypeValues }

\* Largest number of receipt outcomes in a result.
MaxReceipts == 2

\* outcome.logs: no log line, one log line.
LogValues == {<< >>, << "a" >>}

\* outcome.status of one outcome of the tree, by what typeof tells of it: a
\* basic status string, an object without Failure, an object whose Failure
\* is null, an object whose Failure is an object.
OutcomeStatuses == {"Basic", "SuccessValue", "FailureNull", "Failure"}

\* receipt_ids of the outcomes, by their place in the provider's answer: the
\* transaction outcome, then the receipt outcomes.
ReceiptIds == << << "tx" >>, << "r1" >>, << "r2" >>, << "r3" >> >>

\* The outcomes of a result, [result.transaction_outcome,
\* ...result.receipts_outcome], with up to n receipt outcomes.
OutcomeLists(n) ==
    UNION { { [k \in 1..m |->
                 [receipt_ids |-> ReceiptIds[k], logs |-> f[k].logs,
                  status |-> f[k].status]] :
              f \in [1..m -> [logs : LogValues, status : OutcomeStatuses]] } :
            m \in 1..(n + 1) }

\* A provider result with these outcomes and this overall status.
ResultOf(outcomes, st) ==
    [status |-> st, transaction_outcome |-> Head(outcomes),
     receipts_outcome |-> Tail(outcomes)]

\* The outcomes of the results the provider answers the interleaved calls
\* with: a transaction outcome with logs ["a"], a receipt outcome with logs
\* ["a"] and one with no logs and no failure.
Trees ==
    { << [receipt_ids |-> ReceiptIds[1], logs |-> << "a" >>, status |-> "SuccessValue"],
         [receipt_ids |-> ReceiptIds[2], logs |-> << "a" >>, status |-> "SuccessValue"],
         [receipt_ids |-> ReceiptIds[3], logs |-> << >>, status |-> "SuccessValue"] >> }

\* The overall statuses of those results: a success, a null Failure, a
\* Failure in the old format, a Failure in the present format.  The
\* aggregation is run on every status and every outcome list within the
\* bound in SpecAggregator.
TreeStatuses ==
    { [tag |-> "SuccessValue", error_message |-> UNDEF, error_type |-> UNDEF],
      [tag |-> "FailureNull", error_message |-> UNDEF, error_type |-> UNDEF],
      [tag |-> "Failure", error_message |-> "boom", error_type |-> "GuestPanic"],
      [tag |-> "Failure", error_message |-> UNDEF, error_type |-> UNDEF] }

NoResult ==
    [status |-> [tag |-> "null", error_message |-> UNDEF, error_type |-> UNDEF],
     transaction_outcome |-> [receipt_ids |-> << >>, logs |-> << >>, status |-> "null"],
     receipts_outcome |-> << >>]

\* attempt is the attempt of the call in which the transaction was signed;
\* it is no part of the transaction's content.
NoTx == [publicKey |-> NoKey, nonce |-> NoAnswer, attempt |-> NoAnswer]

NoOutcome ==
    [kind |-> "none", type |-> UNDEF, message |-> << >>, context |-> << >>,
     payload |-> NoResult.status, value |-> NoResult]

VARIABLES
    accessKeyByPublicKeyCache, \* the sender's cache: a function on the cached keys
    ledgerNonce,               \* the ledger's nonce of each access key
    signerKey,                 \* what signer.getPublicKey returns
    pc,                        \* where each call stands
    i,                         \* exponentialBackoff's loop counter
    queryAnswer,               \* the nonce the provider answered a pending query with
    queryError,                \* type of the error it failed a pending query with
    accessKeyInfo,             \* nonce of the access key findAccessKey returned
    txHash,                    \* closure variable txHash
    signedTx,                  \* closure variable signedTx
    result,                    \* what exponentialBackoff returned
    outcome,                   \* how the call ended
    inFlight,                  \* sendTransaction calls of the call not yet returned
    sends,                     \* sendTransaction calls the call has made
    submitted,                 \* hash of the transaction last handed to the provider
    sendAnswer,                \* what the provider answered a pending submission with
    returnError,               \* the call's returnError option, once line 124 read it
    highestStored,             \* per key, the highest nonce the cache ever held
    lastError,                 \* type of the retryable error the last attempt caught
    restored,                  \* a query stored a cache entry since that error
    logged,                    \* printLogsAndFailures was called
    flatLogs,                  \* the records it was called with
    nearNoLogs,                \* process.env['NEAR_NO_LOGS'], as line 194 read it
    printed                    \* the console lines it wrote

vars ==
    << accessKeyByPublicKeyCache, ledgerNonce, signerKey, pc, i, queryAnswer,
       accessKeyInfo, txHash, signedTx, result, outcome, inFlight, sends,
       submitted, sendAnswer, returnError, highestStored, lastError, restored,
       logged, flatLogs, nearNoLogs, printed, queryError >>

----------------------------------------------------------------------------
(* Pure helpers *)

\* JavaScript truthiness of a string-or-undefined value.
Truthy(x) == x # UNDEF /\ x # ""

\* delete obj[k]
Delete(c, k) == [x \in (DOMAIN c) \ {k} |-> c[x]]

\* obj[k] = v
Put(c, k, v) == [x \in (DOMAIN c) \cup {k} |-> IF x = k THEN v ELSE c[x]]

\* The hash signTransaction returns with the signed transaction: a function
\* of the transaction's content.
HashOf(tx) == << "hash", tx.publicKey, tx.nonce >>

\* baseEncode of a hash.
baseEncode(h) == << "b58" >> \o h

\* new ErrorContext(baseEncode(txHash))
ErrorContext(h) == baseEncode(h)

\* Mutant: the transaction is signed with the cached nonce itself.
SigningNonceNotAdvanced(n) == n

\* accessKey.nonce.add(new BN(1))
SigningNonce(n) == n + 1

\* A thrown error, as the caller sees it.
Thrown(type, message, context) ==
    [kind |-> "throw", type |-> type, message |-> message, context |-> context,
     payload |-> NoResult.status, value |-> NoResult]

Returned(res) ==
    [kind |-> "return", type |-> UNDEF, message |-> << >>, context |-> << >>,
     payload |-> NoResult.status, value |-> res]


\* parseResultError(result): the typed error the external parser builds from
\* the structured Failure payload.
parseResultError(res) ==
    [kind |-> "throw", type |-> "ServerTransactionError",
     message |-> << "parseResultError" >>, context |-> << >>,
     payload |-> res.status, value |-> NoResult]

\* parseRpcError(failure): the ServerError the external parser builds from an
\* outcome's Failure.
parseRpcError(failure) == << "parseRpcError", failure >>

\* Lines 112-113: it.outcome.logs.length || (typeof it.outcome.status ===
\* 'object' && typeof it.outcome.status.Failure === 'object'); typeof null
\* is 'object'.
HasLogsOrFailure(it) ==
    Len(it.logs) > 0 \/ it.status \in {"Failure", "FailureNull"}

\* Lines 114-118: the record of one outcome; failure is null (the empty
\* tuple) when status.Failure is undefined.
ReceiptLogWithFailure(it) ==
    [receiptIds |-> it.receipt_ids,
     logs |-> it.logs,
     failure |-> IF it.status \in {"Failure", "FailureNull"}
                 THEN parseRpcError(it.status)
                 ELSE << >>]

\* Lines 111-120: the reduce over the outcomes, from the left.
RECURSIVE Reduce(_, _)
Reduce(list, acc) ==
    IF list = << >>
    THEN acc
    ELSE Reduce(Tail(list),
                IF HasLogsOrFailure(Head(list))
                THEN Append(acc, ReceiptLogWithFailure(Head(list)))
                ELSE acc)

\* Lines 111-120: flatLogs of a result.
FlatLogs(res) ==
    Reduce(<< res.transaction_outcome >> \o res.receipts_outcome, << >>)

\* Lines 206-212: the console lines printLogs writes for these logs.
PrintLogs(logs, noLogs) ==
    IF noLogs THEN << >> ELSE [k \in 1..Len(logs) |-> << "Log", << logs[k] >> >>]

\* Lines 195-201: the console lines of the records, in order.
RECURSIVE ConsoleLines(_, _)
ConsoleLines(results, noLogs) ==
    IF results = << >>
    THEN << >>
    ELSE LET r == Head(results)
         IN << << "Receipt", r.receiptIds >> >>
            \o PrintLogs(r.logs, noLogs)
            \o (IF r.failure # << >> THEN << << "Failure", r.failure >> >> ELSE << >>)
            \o ConsoleLines(Tail(results), noLogs)

\* Lines 193-203: what printLogsAndFailures writes to the console, noLogs
\* being process.env['NEAR_NO_LOGS'].
PrintLogsAndFailures(results, noLogs) ==
    IF noLogs THEN << >> ELSE ConsoleLines(results, noLogs)

\* typeof result.status === 'object' && typeof result.status.Failure === 'object'
\*   && result.status.Failure !== null
HasStructuredFailure(res) == res.status.tag = "Failure"

\* result.status.Failure.error_message && result.status.Failure.error_type
IsOldFormat(res) ==
    Truthy(res.status.error_message) /\ Truthy(res.status.error_type)

\* Mutant: only the status and the transaction outcome are handed back.
FinalStatusWithoutReceipts(res, opt) ==
    IF ~opt /\ HasStructuredFailure(res)
    THEN IF IsOldFormat(res)
         THEN Thrown(res.status.error_type,
                     << "Transaction ", "id", " failed. ", res.status.error_message >>,
                     << >>)
         ELSE parseResultError(res)
    ELSE Returned([res EXCEPT !.receipts_outcome = << >>])

\* Mutant: the returnError option is not consulted.
FinalStatusIgnoringReturnError(res, opt) ==
    IF HasStructuredFailure(res)
    THEN IF IsOldFormat(res)
         THEN Thrown(res.status.error_type,
                     << "Transaction ", "id", " failed. ", res.status.error_message >>,
                     << >>)
         ELSE parseResultError(res)
    ELSE Returned(res)

\* Lines 124-135: what signAndSendTransaction ends with for a non-null result.
FinalStatus(res, opt) ==
    IF ~opt /\ HasStructuredFailure(res)
    THEN IF IsOldFormat(res)
         THEN Thrown(res.status.error_type,
                     << "Transaction ", "id", " failed. ", res.status.error_message >>,
                     << >>)
         ELSE parseResultError(res)
    ELSE Returned(res)

\* exponentialBackoff's loop condition, after k attempts returned nothing.
MayRetry(k) == k < RetryNumber

\* Mutant: Expired is not taken for retryable.
IsRetryableOnlyInvalidNonce(type) == type = "InvalidNonce"

\* Mutant: every submission error is retried.
IsRetryableWhateverTheType(type) == TRUE

\* The catch block's classification of a submission error (lines 92-103).
IsRetryable(type) == type \in {"InvalidNonce", "Expired"}

\* Mutant: the stale entry is kept on InvalidNonce.
CacheAfterSendErrorKeepingEntry(c, type, key) == c

\* Mutant: the entry is evicted on Expired as well.
CacheAfterSendErrorEvictingOnExpired(c, type, key) ==
    IF type \in {"InvalidNonce", "Expired"} THEN Delete(c, key) ELSE c

\* Lines 92-96: the cache after a submission failed with an error of this type.
CacheAfterSendError(c, type, key) ==
    IF type = "InvalidNonce" THEN Delete(c, key) ELSE c

\* Mutant: the fetched access key is stored without the check of line 177.
CacheAfterQueryOverwriting(c, key, nonce) == Put(c, key, nonce)

\* Lines 177-182: the cache after a query returned accessKey for key.
CacheAfterQuery(c, key, nonce) ==
    IF key \in DOMAIN c THEN c ELSE Put(c, key, nonce)

\* Lines 177-182: the access key findAccessKey returns after its query.
AccessKeyAfterQuery(c, key, nonce) ==
    IF key \in DOMAIN c THEN c[key] ELSE nonce

----------------------------------------------------------------------------
(* Initial state: a fresh sender, no call started *)

Init ==
    /\ accessKeyByPublicKeyCache = << >>
    /\ ledgerNonce \in [Keys -> 0..MaxNonce]
    /\ signerKey \in Keys \cup {NoKey}
    /\ pc = [b \in Broadcasts |-> "idle"]
    /\ i = [b \in Broadcasts |-> 0]
    /\ queryAnswer = [b \in Broadcasts |-> NoAnswer]
    /\ queryError = [b \in Broadcasts |-> "none"]
    /\ accessKeyInfo = [b \in Broadcasts |-> NoAnswer]
    /\ txHash = [b \in Broadcasts |-> HashOf(NoTx)]
    /\ signedTx = [b \in Broadcasts |-> NoTx]
    /\ result = [b \in Broadcasts |-> NoResult]
    /\ outcome = [b \in Broadcasts |-> NoOutcome]
    /\ inFlight = [b \in Broadcasts |-> 0]
    /\ sends = [b \in Broadcasts |-> 0]
    /\ submitted = [b \in Broadcasts |-> HashOf(NoTx)]
    /\ sendAnswer = [b \in Broadcasts |-> "none"]
    /\ returnError = [b \in Broadcasts |-> FALSE]
    /\ highestStored = [k \in Keys |-> NoAnswer]
    /\ lastError = [b \in Broadcasts |-> UNDEF]
    /\ restored = [b \in Broadcasts |-> FALSE]
    /\ logged = [b \in Broadcasts |-> FALSE]
    /\ flatLogs = [b \in Broadcasts |-> << >>]
    /\ nearNoLogs = [b \in Broadcasts |-> FALSE]
    /\ printed = [b \in Broadcasts |-> << >>]

\* The call ends with e (an error thrown to the caller, or the value
\* returned): its frame, with the loop counter and the closure variables, is gone.
Finish(b, e) ==
    /\ pc' = [pc EXCEPT ![b] = "done"]
    /\ outcome' = [outcome EXCEPT ![b] = e]
    /\ i' = [i EXCEPT ![b] = 0]
    /\ queryAnswer' = [queryAnswer EXCEPT ![b] = NoAnswer]
    /\ queryError' = [queryError EXCEPT ![b] = "none"]
    /\ accessKeyInfo' = [accessKeyInfo EXCEPT ![b] = NoAnswer]
    /\ txHash' = [txHash EXCEPT ![b] = HashOf(NoTx)]
    /\ signedTx' = [signedTx EXCEPT ![b] = NoTx]
    /\ result' = [result EXCEPT ![b] = NoResult]
    /\ sends' = [sends EXCEPT ![b] = 0]
    /\ submitted' = [submitted EXCEPT ![b] = HashOf(NoTx)]
    /\ sendAnswer' = [sendAnswer EXCEPT ![b] = "none"]
    /\ lastError' = [lastError EXCEPT ![b] = UNDEF]
    /\ restored' = [restored EXCEPT ![b] = FALSE]

----------------------------------------------------------------------------
(* signAndSendTransaction, one action per stretch between two awaits *)

\* Line 85: the call starts; exponentialBackoff runs getResult, which calls
\* signTransaction, which calls findAccessKey, which awaits the signer.
Start(b) ==
    /\ pc[b] = "idle"
    /\ pc' = [pc EXCEPT ![b] = "findAccessKey"]
    /\ UNCHANGED << accessKeyByPublicKeyCache, ledgerNonce, signerKey, i,
                    queryAnswer, accessKeyInfo, txHash, signedTx, result,
                    outcome, inFlight, sends, submitted, lastError, restored,
                    logged, sendAnswer, returnError, highestStored, flatLogs, nearNoLogs, printed, queryError >>

\* Mutant: the missing public key is reported with signTransaction's type.
FindAccessKeyNoKeyAsKeyNotFound(b) ==
    /\ pc[b] = "findAccessKey"
    /\ signerKey = NoKey
    /\ Finish(b, Thrown("KeyNotFound", << "no matching key pair found" >>, << >>))
    /\ UNCHANGED << accessKeyByPublicKeyCache, ledgerNonce, signerKey, inFlight,
                    logged, returnError, highestStored, flatLogs, nearNoLogs,
                    printed >>

\* Lines 150-153: the signer has no key for the account.
FindAccessKeyNoKey(b) ==
    /\ pc[b] = "findAccessKey"
    /\ signerKey = NoKey
    /\ Finish(b, Thrown("PublicKeyNotFound", << "no matching key pair found" >>, << >>))
    /\ UNCHANGED << accessKeyByPublicKeyCache, ledgerNonce, signerKey, inFlight,
                    logged, returnError, highestStored, flatLogs, nearNoLogs, printed >>

\* Lines 150-158 and 64-69: the signer answered and the cache holds the key's
\* entry; signTransaction goes on to fetch the block.
FindAccessKeyHit(b) ==
    /\ pc[b] = "findAccessKey"
    /\ signerKey # NoKey
    /\ signerKey \in DOMAIN accessKeyByPublicKeyCache
    /\ accessKeyInfo' =
         [accessKeyInfo EXCEPT ![b] = accessKeyByPublicKeyCache[signerKey]]
    /\ pc' = [pc EXCEPT ![b] = "block"]
    /\ lastError' = [lastError EXCEPT ![b] = UNDEF]
    /\ restored' = [restored EXCEPT ![b] = FALSE]
    /\ UNCHANGED << accessKeyByPublicKeyCache, ledgerNonce, signerKey, i,
                    queryAnswer, txHash, signedTx, result, outcome, inFlight,
                    sends, submitted, logged, sendAnswer, returnError, highestStored, flatLogs, nearNoLogs, printed, queryError >>

\* Mutant: the provider is queried whatever the cache holds.
FindAccessKeyMissWhateverTheCache(b) ==
    /\ pc[b] = "findAccessKey"
    /\ signerKey # NoKey
    /\ pc' = [pc EXCEPT ![b] = "query"]
    /\ lastError' = [lastError EXCEPT ![b] = UNDEF]
    /\ restored' = [restored EXCEPT ![b] = FALSE]
    /\ UNCHANGED << accessKeyByPublicKeyCache, ledgerNonce, signerKey, i,
                    queryAnswer, accessKeyInfo, txHash, signedTx, result,
                    outcome, inFlight, sends, submitted, logged, sendAnswer,
                    returnError, highestStored, flatLogs, nearNoLogs, printed,
                    queryError >>

\* Lines 150-166: the signer answered and the cache has no entry; the
\* provider is queried.
FindAccessKeyMiss(b) ==
    /\ pc[b] = "findAccessKey"
    /\ signerKey # NoKey
    /\ signerKey \notin DOMAIN accessKeyByPublicKeyCache
    /\ pc' = [pc EXCEPT ![b] = "query"]
    /\ lastError' = [lastError EXCEPT ![b] = UNDEF]
    /\ restored' = [restored EXCEPT ![b] = FALSE]
    /\ UNCHANGED << accessKeyByPublicKeyCache, ledgerNonce, signerKey, i,
                    queryAnswer, accessKeyInfo, txHash, signedTx, result,
                    outcome, inFlight, sends, submitted, logged, sendAnswer, returnError, highestStored, flatLogs, nearNoLogs, printed, queryError >>

\* The provider reads the access key from the ledger; the answer is on its
\* way to the caller.
ProviderAnswersQuery(b) ==
    /\ pc[b] = "query"
    /\ queryAnswer[b] = NoAnswer
    /\ queryError[b] = "none"
    /\ queryAnswer' = [queryAnswer EXCEPT ![b] = ledgerNonce[signerKey]]
    /\ UNCHANGED << accessKeyByPublicKeyCache, ledgerNonce, signerKey, pc, i,
                    accessKeyInfo, txHash, signedTx, result, outcome, inFlight,
                    sends, submitted, lastError, restored, logged, sendAnswer, returnError, highestStored, flatLogs, nearNoLogs, printed, queryError >>

\* Lines 161-182 and 64-69: the query returned an access key; it is stored
\* unless an entry is there, and signTransaction goes on to fetch the block.
QueryReturn(b) ==
    /\ pc[b] = "query"
    /\ queryAnswer[b] # NoAnswer
    /\ accessKeyByPublicKeyCache' =
         CacheAfterQuery(accessKeyByPublicKeyCache, signerKey, queryAnswer[b])
    /\ accessKeyInfo' =
         [accessKeyInfo EXCEPT ![b] =
            AccessKeyAfterQuery(accessKeyByPublicKeyCache, signerKey, queryAnswer[b])]
    /\ restored' =
         IF accessKeyByPublicKeyCache' = accessKeyByPublicKeyCache
         THEN restored
         ELSE [x \in Broadcasts |-> lastError[x] # UNDEF]
    /\ highestStored' =
         IF accessKeyByPublicKeyCache' = accessKeyByPublicKeyCache
            \/ queryAnswer[b] <= highestStored[signerKey]
         THEN highestStored
         ELSE [highestStored EXCEPT ![signerKey] = queryAnswer[b]]
    /\ queryAnswer' = [queryAnswer EXCEPT ![b] = NoAnswer]
    /\ pc' = [pc EXCEPT ![b] = "block"]
    /\ UNCHANGED << ledgerNonce, signerKey, i, txHash, signedTx, result,
                    outcome, inFlight, sends, submitted, lastError, logged,
                    sendAnswer, returnError, flatLogs, nearNoLogs, printed, queryError >>

\* The provider fails the access-key query with an error of this type; the
\* error is on its way to the caller.
ProviderFailsQuery(b, type) ==
    /\ pc[b] = "query"
    /\ queryAnswer[b] = NoAnswer
    /\ queryError[b] = "none"
    /\ queryError' = [queryError EXCEPT ![b] = type]
    /\ UNCHANGED << accessKeyByPublicKeyCache, ledgerNonce, signerKey, pc, i,
                    queryAnswer, accessKeyInfo, txHash, signedTx, result,
                    outcome, inFlight, sends, submitted, lastError, restored,
                    logged, sendAnswer, returnError, highestStored, flatLogs,
                    nearNoLogs, printed >>

\* Mutant: AccessKeyDoesNotExist is rethrown like any other error.
QueryFailNoAccessKeyRethrown(b) ==
    /\ pc[b] = "query"
    /\ queryError[b] = "AccessKeyDoesNotExist"
    /\ Finish(b, Thrown(queryError[b], << "query" >>, << >>))
    /\ UNCHANGED << accessKeyByPublicKeyCache, ledgerNonce, signerKey, inFlight,
                    logged, returnError, highestStored, flatLogs, nearNoLogs,
                    printed >>

\* Lines 183-186: the query failed with AccessKeyDoesNotExist; findAccessKey
\* returns null, which the await of line 63 hands to signTransaction.
QueryFailNoAccessKey(b) ==
    /\ pc[b] = "query"
    /\ queryError[b] = "AccessKeyDoesNotExist"
    /\ queryError' = [queryError EXCEPT ![b] = "none"]
    /\ accessKeyInfo' = [accessKeyInfo EXCEPT ![b] = NoAccessKey]
    /\ pc' = [pc EXCEPT ![b] = "signTransaction"]
    /\ UNCHANGED << accessKeyByPublicKeyCache, ledgerNonce, signerKey, i,
                    queryAnswer, txHash, signedTx, result, outcome, inFlight,
                    sends, submitted, lastError, restored, logged, sendAnswer,
                    returnError, highestStored, flatLogs, nearNoLogs, printed >>

\* Mutant: a missing access key counts as a failed attempt and is retried.
AccessKeyMissingRetried(b) ==
    /\ pc[b] = "signTransaction"
    /\ accessKeyInfo[b] = NoAccessKey
    /\ accessKeyInfo' = [accessKeyInfo EXCEPT ![b] = NoAnswer]
    /\ i' = [i EXCEPT ![b] = @ + 1]
    /\ pc' = [pc EXCEPT ![b] = IF MayRetry(i[b] + 1) THEN "sleep" ELSE "aggregate"]
    /\ UNCHANGED << accessKeyByPublicKeyCache, ledgerNonce, signerKey,
                    queryAnswer, queryError, txHash, signedTx, result, outcome,
                    inFlight, sends, submitted, lastError, restored, logged,
                    sendAnswer, returnError, highestStored, flatLogs,
                    nearNoLogs, printed >>

\* Lines 63-66: findAccessKey returned nothing; signTransaction throws
\* KeyNotFound, which leaves exponentialBackoff and signAndSendTransaction.
AccessKeyMissing(b) ==
    /\ pc[b] = "signTransaction"
    /\ accessKeyInfo[b] = NoAccessKey
    /\ Finish(b, Thrown("KeyNotFound", << "Can not sign transactions" >>, << >>))
    /\ UNCHANGED << accessKeyByPublicKeyCache, ledgerNonce, signerKey, inFlight,
                    logged, returnError, highestStored, flatLogs, nearNoLogs,
                    printed >>

\* Lines 183-189: the query failed with another error, which is rethrown.
QueryFail(b) ==
    /\ pc[b] = "query"
    /\ queryError[b] \notin {"none", "AccessKeyDoesNotExist"}
    /\ Finish(b, Thrown(queryError[b], << "query" >>, << >>))
    /\ UNCHANGED << accessKeyByPublicKeyCache, ledgerNonce, signerKey, inFlight,
                    logged, returnError, highestStored, flatLogs, nearNoLogs,
                    printed >>

\* Lines 69-73: provider.block returned; the external signTransaction is called.
BlockReturn(b) ==
    /\ pc[b] = "block"
    /\ pc' = [pc EXCEPT ![b] = "sign"]
    /\ UNCHANGED << accessKeyByPublicKeyCache, ledgerNonce, signerKey, i,
                    queryAnswer, accessKeyInfo, txHash, signedTx, result,
                    outcome, inFlight, sends, submitted, lastError, restored,
                    logged, sendAnswer, returnError, highestStored, flatLogs, nearNoLogs, printed, queryError >>

\* Mutant: the block fetch is inside the try of line 89, so that its
\* InvalidNonce and Expired errors are handled by the catch block.
BlockFailCaughtLikeSubmission(b, type) ==
    /\ pc[b] = "block"
    /\ IF IsRetryable(type)
       THEN /\ accessKeyByPublicKeyCache' =
                 CacheAfterSendError(accessKeyByPublicKeyCache, type, signerKey)
            /\ lastError' = [lastError EXCEPT ![b] = type]
            /\ restored' = [restored EXCEPT ![b] = FALSE]
            /\ accessKeyInfo' = [accessKeyInfo EXCEPT ![b] = NoAnswer]
            /\ i' = [i EXCEPT ![b] = @ + 1]
            /\ pc' = [pc EXCEPT ![b] = IF MayRetry(i[b] + 1) THEN "sleep" ELSE "aggregate"]
            /\ UNCHANGED << queryAnswer, queryError, txHash, signedTx, result,
                            outcome, sends, submitted, sendAnswer >>
       ELSE /\ Finish(b, Thrown(type, << "block" >>, ErrorContext(txHash[b])))
            /\ UNCHANGED accessKeyByPublicKeyCache
    /\ UNCHANGED << ledgerNonce, signerKey, inFlight,
                    logged, returnError, highestStored, flatLogs, nearNoLogs, printed >>

\* Line 69: provider.block failed; the error leaves signAndSendTransaction.
BlockFail(b, type) ==
    /\ pc[b] = "block"
    /\ Finish(b, Thrown(type, << "block" >>, << >>))
    /\ UNCHANGED << accessKeyByPublicKeyCache, ledgerNonce, signerKey, inFlight,
                    logged, returnError, highestStored, flatLogs, nearNoLogs, printed >>

\* Mutant: the transaction signed by an earlier attempt is submitted again.
SignReturnReusingSignedTx(b) ==
    /\ pc[b] = "sign"
    /\ LET tx == IF signedTx[b] # NoTx
                 THEN signedTx[b]
                 ELSE [publicKey |-> signerKey,
                       nonce |-> SigningNonce(accessKeyInfo[b]),
                       attempt |-> i[b]]
       IN /\ signedTx' = [signedTx EXCEPT ![b] = tx]
          /\ txHash' = [txHash EXCEPT ![b] = HashOf(tx)]
          /\ submitted' = [submitted EXCEPT ![b] = HashOf(tx)]
    /\ accessKeyInfo' = [accessKeyInfo EXCEPT ![b] = NoAnswer]
    /\ inFlight' = [inFlight EXCEPT ![b] = @ + 1]
    /\ sends' = [sends EXCEPT ![b] = @ + 1]
    /\ pc' = [pc EXCEPT ![b] = "send"]
    /\ UNCHANGED << accessKeyByPublicKeyCache, ledgerNonce, signerKey, i,
                    queryAnswer, result, outcome, lastError, restored, logged,
                    sendAnswer, returnError, highestStored, flatLogs,
                    nearNoLogs, printed, queryError >>

\* Lines 72-76 and 86-90: the transaction is signed with nonce + 1 and handed
\* to provider.sendTransaction.
SignReturn(b) ==
    /\ pc[b] = "sign"
    /\ LET tx == [publicKey |-> signerKey,
                  nonce |-> SigningNonce(accessKeyInfo[b]),
                  attempt |-> i[b]]
       IN /\ signedTx' = [signedTx EXCEPT ![b] = tx]
          /\ txHash' = [txHash EXCEPT ![b] = HashOf(tx)]
          /\ submitted' = [submitted EXCEPT ![b] = HashOf(tx)]
    /\ accessKeyInfo' = [accessKeyInfo EXCEPT ![b] = NoAnswer]
    /\ inFlight' = [inFlight EXCEPT ![b] = @ + 1]
    /\ sends' = [sends EXCEPT ![b] = @ + 1]
    /\ pc' = [pc EXCEPT ![b] = "send"]
    /\ UNCHANGED << accessKeyByPublicKeyCache, ledgerNonce, signerKey, i,
                    queryAnswer, result, outcome, lastError, restored, logged, sendAnswer, returnError, highestStored, flatLogs, nearNoLogs, printed, queryError >>

\* Lines 73-75: the external signer failed.
SignFail(b, type) ==
    /\ pc[b] = "sign"
    /\ Finish(b, Thrown(type, << "sign" >>, << >>))
    /\ UNCHANGED << accessKeyByPublicKeyCache, ledgerNonce, signerKey, inFlight,
                    logged, returnError, highestStored, flatLogs, nearNoLogs, printed >>

\* The ledger takes the submitted transaction: its nonce is above the
\* access key's, which it now becomes.  The outcome is on its way to the caller.
ProviderAcceptsTransaction(b) ==
    /\ pc[b] = "send"
    /\ sendAnswer[b] = "none"
    /\ signedTx[b].nonce > ledgerNonce[signedTx[b].publicKey]
    /\ signedTx[b].nonce <= MaxNonce
    /\ ledgerNonce' = [ledgerNonce EXCEPT ![signedTx[b].publicKey] = signedTx[b].nonce]
    /\ sendAnswer' = [sendAnswer EXCEPT ![b] = "ok"]
    /\ UNCHANGED << accessKeyByPublicKeyCache, signerKey, pc, i, queryAnswer,
                    accessKeyInfo, txHash, signedTx, result, outcome, inFlight,
                    sends, submitted, lastError, restored, logged, returnError,
                    highestStored, flatLogs, nearNoLogs, printed, queryError >>

\* The provider fails the submission with an error of this type.  Any type
\* may come at any time: the node that answers may see a higher nonce than
\* the one the query saw, an older block, or time out.
ProviderRejectsTransaction(b, type) ==
    /\ pc[b] = "send"
    /\ sendAnswer[b] = "none"
    /\ sendAnswer' = [sendAnswer EXCEPT ![b] = type]
    /\ UNCHANGED << accessKeyByPublicKeyCache, ledgerNonce, signerKey, pc, i,
                    queryAnswer, accessKeyInfo, txHash, signedTx, result,
                    outcome, inFlight, sends, submitted, lastError, restored,
                    logged, returnError, highestStored, flatLogs, nearNoLogs, printed, queryError >>

\* Mutant: the nonce just used is written to the key's cache entry when the
\* submission succeeds.
SendReturnStoringUsedNonce(b) ==
    /\ pc[b] = "send"
    /\ sendAnswer[b] = "ok"
    /\ \E st \in TreeStatuses, outcomes \in Trees :
         result' = [result EXCEPT ![b] = ResultOf(outcomes, st)]
    /\ accessKeyByPublicKeyCache' =
         Put(accessKeyByPublicKeyCache, signedTx[b].publicKey, signedTx[b].nonce)
    /\ sendAnswer' = [sendAnswer EXCEPT ![b] = "none"]
    /\ inFlight' = [inFlight EXCEPT ![b] = @ - 1]
    /\ pc' = [pc EXCEPT ![b] = "aggregate"]
    /\ UNCHANGED << ledgerNonce, signerKey, i,
                    queryAnswer, accessKeyInfo, txHash, signedTx, outcome,
                    sends, submitted, lastError, restored, logged, returnError,
                    highestStored, flatLogs, nearNoLogs, printed, queryError >>

\* Line 90 and exponentialBackoff: sendTransaction returned the provider's
\* result, which ends the retry loop.
SendReturn(b) ==
    /\ pc[b] = "send"
    /\ sendAnswer[b] = "ok"
    /\ \E st \in TreeStatuses, outcomes \in Trees :
         result' = [result EXCEPT ![b] = ResultOf(outcomes, st)]
    /\ sendAnswer' = [sendAnswer EXCEPT ![b] = "none"]
    /\ inFlight' = [inFlight EXCEPT ![b] = @ - 1]
    /\ pc' = [pc EXCEPT ![b] = "aggregate"]
    /\ UNCHANGED << accessKeyByPublicKeyCache, ledgerNonce, signerKey, i,
                    queryAnswer, accessKeyInfo, txHash, signedTx, outcome,
                    sends, submitted, lastError, restored, logged, returnError,
                    highestStored, flatLogs, nearNoLogs, printed, queryError >>

\* Mutant: the next attempt is started without waiting for sendTransaction
\* to return.
RetryWithoutAwaitingSubmission(b) ==
    /\ pc[b] = "send"
    /\ MayRetry(i[b] + 1)
    /\ i' = [i EXCEPT ![b] = @ + 1]
    /\ pc' = [pc EXCEPT ![b] = "sleep"]
    /\ UNCHANGED << accessKeyByPublicKeyCache, ledgerNonce, signerKey,
                    queryAnswer, accessKeyInfo, txHash, signedTx, result,
                    outcome, inFlight, sends, submitted, sendAnswer, lastError,
                    restored, logged, returnError, highestStored, flatLogs, nearNoLogs, printed, queryError >>

\* Lines 91-100 and exponentialBackoff: sendTransaction failed with
\* InvalidNonce or Expired; getResult returns null, and the loop sleeps
\* before the next attempt or gives up.
SendFailRetryable(b) ==
    /\ pc[b] = "send"
    /\ sendAnswer[b] \in ErrTypes
    /\ IsRetryable(sendAnswer[b])
    /\ accessKeyByPublicKeyCache' =
         CacheAfterSendError(accessKeyByPublicKeyCache, sendAnswer[b],
                             signedTx[b].publicKey)
    /\ lastError' = [lastError EXCEPT ![b] = sendAnswer[b]]
    /\ restored' = [restored EXCEPT ![b] = FALSE]
    /\ sendAnswer' = [sendAnswer EXCEPT ![b] = "none"]
    /\ inFlight' = [inFlight EXCEPT ![b] = @ - 1]
    /\ i' = [i EXCEPT ![b] = @ + 1]
    /\ pc' = [pc EXCEPT ![b] = IF MayRetry(i[b] + 1) THEN "sleep" ELSE "aggregate"]
    /\ UNCHANGED << ledgerNonce, signerKey, queryAnswer, accessKeyInfo, txHash,
                    signedTx, result, outcome, sends, submitted, logged,
                    returnError, highestStored, flatLogs, nearNoLogs, printed, queryError >>

\* Lines 91-104: sendTransaction failed with any other error, which is
\* thrown with the transaction's hash as its context.
SendFailFatal(b) ==
    /\ pc[b] = "send"
    /\ sendAnswer[b] \in ErrTypes
    /\ ~IsRetryable(sendAnswer[b])
    /\ inFlight' = [inFlight EXCEPT ![b] = @ - 1]
    /\ Finish(b, Thrown(sendAnswer[b], << "send" >>, ErrorContext(txHash[b])))
    /\ UNCHANGED << accessKeyByPublicKeyCache, ledgerNonce, signerKey, logged,
                    returnError, highestStored, flatLogs, nearNoLogs, printed >>

\* exponentialBackoff: the delay between two attempts is over.
SleepReturn(b) ==
    /\ pc[b] = "sleep"
    /\ pc' = [pc EXCEPT ![b] = "findAccessKey"]
    /\ UNCHANGED << accessKeyByPublicKeyCache, ledgerNonce, signerKey, i,
                    queryAnswer, accessKeyInfo, txHash, signedTx, result,
                    outcome, inFlight, sends, submitted, lastError, restored,
                    logged, sendAnswer, returnError, highestStored, flatLogs, nearNoLogs, printed, queryError >>

\* Lines 106-109: exponentialBackoff returned null.
RetriesExceeded(b) ==
    /\ pc[b] = "aggregate"
    /\ result[b] = NoResult
    /\ Finish(b, Thrown("RetriesExceeded", << "nonce retries exceeded" >>, << >>))
    /\ UNCHANGED << accessKeyByPublicKeyCache, ledgerNonce, signerKey, inFlight,
                    logged, returnError, highestStored, flatLogs, nearNoLogs, printed >>

\* Mutant: the status is looked at first, and the logs are printed only when
\* the result is returned.
AggregateThrowingBeforeLogging(b) ==
    /\ pc[b] = "aggregate"
    /\ result[b] # NoResult
    /\ \E opt \in BOOLEAN :
         /\ returnError' = [returnError EXCEPT ![b] = opt]
         /\ Finish(b, FinalStatus(result[b], opt))
         /\ IF FinalStatus(result[b], opt).kind = "return"
            THEN /\ logged' = [logged EXCEPT ![b] = TRUE]
                 /\ flatLogs' = [flatLogs EXCEPT ![b] = FlatLogs(result[b])]
                 /\ \E noLogs \in BOOLEAN :
                      /\ nearNoLogs' = [nearNoLogs EXCEPT ![b] = noLogs]
                      /\ printed' =
                           [printed EXCEPT ![b] =
                              PrintLogsAndFailures(FlatLogs(result[b]), noLogs)]
            ELSE UNCHANGED << logged, flatLogs, nearNoLogs, printed >>
    /\ UNCHANGED << accessKeyByPublicKeyCache, ledgerNonce, signerKey, inFlight,
                    highestStored >>

\* Mutant: with NEAR_NO_LOGS set the result is returned right away, before
\* the status is looked at.
AggregateReturningEarlyWhenSilent(b) ==
    /\ pc[b] = "aggregate"
    /\ result[b] # NoResult
    /\ logged' = [logged EXCEPT ![b] = TRUE]
    /\ flatLogs' = [flatLogs EXCEPT ![b] = FlatLogs(result[b])]
    /\ \E noLogs \in BOOLEAN :
         /\ nearNoLogs' = [nearNoLogs EXCEPT ![b] = noLogs]
         /\ printed' =
              [printed EXCEPT ![b] = PrintLogsAndFailures(FlatLogs(result[b]), noLogs)]
         /\ \E opt \in BOOLEAN :
              /\ returnError' = [returnError EXCEPT ![b] = opt]
              /\ Finish(b, FinalStatus(result[b], opt \/ noLogs))
    /\ UNCHANGED << accessKeyByPublicKeyCache, ledgerNonce, signerKey, inFlight,
                    highestStored >>

\* Lines 111-135: exponentialBackoff returned the provider's result; its logs
\* are printed and its status decides how the call ends.  The returnError
\* option is read nowhere but at line 124 and NEAR_NO_LOGS nowhere but in
\* printLogsAndFailures and printLogs, so their values are drawn here.
Aggregate(b) ==
    /\ pc[b] = "aggregate"
    /\ result[b] # NoResult
    /\ logged' = [logged EXCEPT ![b] = TRUE]
    /\ flatLogs' = [flatLogs EXCEPT ![b] = FlatLogs(result[b])]
    /\ \E noLogs \in BOOLEAN :
         /\ nearNoLogs' = [nearNoLogs EXCEPT ![b] = noLogs]
         /\ printed' =
              [printed EXCEPT ![b] = PrintLogsAndFailures(FlatLogs(result[b]), noLogs)]
    /\ \E opt \in BOOLEAN :
         /\ returnError' = [returnError EXCEPT ![b] = opt]
         /\ Finish(b, FinalStatus(result[b], opt))
    /\ UNCHANGED << accessKeyByPublicKeyCache, ledgerNonce, signerKey, inFlight,
                    highestStored >>

\* Another client of the same access key had a transaction accepted.
LedgerAdvance(k) ==
    /\ ledgerNonce[k] < MaxNonce
    /\ ledgerNonce' = [ledgerNonce EXCEPT ![k] = @ + 1]
    /\ UNCHANGED << accessKeyByPublicKeyCache, signerKey, pc, i, queryAnswer,
                    accessKeyInfo, txHash, signedTx, result, outcome, inFlight,
                    sends, submitted, lastError, restored, logged, sendAnswer, returnError, highestStored, flatLogs, nearNoLogs, printed, queryError >>

Next ==
    \/ \E b \in Broadcasts : Start(b)
    \/ \E b \in Broadcasts : FindAccessKeyNoKey(b)
    \/ \E b \in Broadcasts : FindAccessKeyHit(b)
    \/ \E b \in Broadcasts : FindAccessKeyMiss(b)
    \/ \E b \in Broadcasts : ProviderAnswersQuery(b)
    \/ \E b \in Broadcasts : QueryReturn(b)
    \/ \E b \in Broadcasts : \E type \in QueryErrTypes : ProviderFailsQuery(b, type)
    \/ \E b \in Broadcasts : QueryFailNoAccessKey(b)
    \/ \E b \in Broadcasts : AccessKeyMissing(b)
    \/ \E b \in Broadcasts : QueryFail(b)
    \/ \E b \in Broadcasts : BlockReturn(b)
    \/ \E b \in Broadcasts : \E type \in LookupErrTypes : BlockFail(b, type)
    \/ \E b \in Broadcasts : SignReturn(b)
    \/ \E b \in Broadcasts : \E type \in LookupErrTypes : SignFail(b, type)
    \/ \E b \in Broadcasts : ProviderAcceptsTransaction(b)
    \/ \E b \in Broadcasts : \E type \in ErrTypes : ProviderRejectsTransaction(b, type)
    \/ \E b \in Broadcasts : SendReturn(b)
    \/ \E b \in Broadcasts : SendFailRetryable(b)
    \/ \E b \in Broadcasts : SendFailFatal(b)
    \/ \E b \in Broadcasts : SleepReturn(b)
    \/ \E b \in Broadcasts : RetriesExceeded(b)
    \/ \E b \in Broadcasts : Aggregate(b)
    \/ \E k \in Keys : LedgerAdvance(k)

Spec == Init /\ [][Next]_vars

----------------------------------------------------------------------------
(* One call among any number of others, when every collaborator call and *)
(* every backoff delay returns and the event loop runs every continuation *)
(* that is ready.  The other calls are seen through what they do to the   *)
(* sender's cache; what they do to the ledger is LedgerAdvance.           *)

\* The call that is followed.
Caller == "b1"

\* Line 94 in another call: its submission failed with InvalidNonce and it
\* deleted the key's entry.
OtherBroadcastEvicts(k) ==
    /\ k \in DOMAIN accessKeyByPublicKeyCache
    /\ accessKeyByPublicKeyCache' = Delete(accessKeyByPublicKeyCache, k)
    /\ UNCHANGED << ledgerNonce, signerKey, pc, i, queryAnswer, accessKeyInfo,
                    txHash, signedTx, result, outcome, inFlight, sends,
                    submitted, lastError, restored, logged, sendAnswer,
                    returnError, highestStored, flatLogs, nearNoLogs, printed,
                    queryError >>

\* Lines 177-182 in another call: its query returned, at some time, the
\* access key with this nonce, and no entry was there.
OtherBroadcastStores(k, nonce) ==
    /\ k \notin DOMAIN accessKeyByPublicKeyCache
    /\ accessKeyByPublicKeyCache' = CacheAfterQuery(accessKeyByPublicKeyCache, k, nonce)
    /\ restored' = [x \in Broadcasts |-> lastError[x] # UNDEF]
    /\ highestStored' =
         IF nonce <= highestStored[k]
         THEN highestStored
         ELSE [highestStored EXCEPT ![k] = nonce]
    /\ UNCHANGED << ledgerNonce, signerKey, pc, i, queryAnswer, accessKeyInfo,
                    txHash, signedTx, result, outcome, inFlight, sends,
                    submitted, lastError, logged, sendAnswer, returnError,
                    flatLogs, nearNoLogs, printed, queryError >>

\* The steps of one call after its start: the answers of its collaborators
\* and its own continuations.
Progress(b) ==
    \/ FindAccessKeyNoKey(b)
    \/ FindAccessKeyHit(b)
    \/ FindAccessKeyMiss(b)
    \/ ProviderAnswersQuery(b)
    \/ \E type \in SigningQueryErrTypes : ProviderFailsQuery(b, type)
    \/ QueryReturn(b)
    \/ QueryFailNoAccessKey(b)
    \/ AccessKeyMissing(b)
    \/ QueryFail(b)
    \/ BlockReturn(b)
    \/ \E type \in SigningErrTypes : BlockFail(b, type)
    \/ SignReturn(b)
    \/ \E type \in SigningErrTypes : SignFail(b, type)
    \/ ProviderAcceptsTransaction(b)
    \/ \E type \in ErrTypes : ProviderRejectsTransaction(b, type)
    \/ SendReturn(b)
    \/ SendFailRetryable(b)
    \/ SendFailFatal(b)
    \/ SleepReturn(b)
    \/ RetriesExceeded(b)
    \/ Aggregate(b)

NextFair ==
    \/ Start(Caller)
    \/ Progress(Caller)
    \/ \E k \in Keys : OtherBroadcastEvicts(k)
    \/ \E k \in Keys, nonce \in 0..MaxNonce : OtherBroadcastStores(k, nonce)
    \/ \E k \in Keys : LedgerAdvance(k)

\* An awaited call that returns lets the caller's continuation run, and so
\* does a delay that ends: a call that can take a step takes one.
SpecFair == Init /\ [][NextFair]_vars /\ WF_vars(Progress(Caller))

----------------------------------------------------------------------------
(* The sender against a submission stub that always fails with InvalidNonce, *)
(* every other collaborator call succeeding                                  *)

InitInvalidNonceStub == Init /\ signerKey \in Keys

NextInvalidNonceStub ==
    \/ \E b \in Broadcasts : Start(b)
    \/ \E b \in Broadcasts : FindAccessKeyHit(b)
    \/ \E b \in Broadcasts : FindAccessKeyMiss(b)
    \/ \E b \in Broadcasts : ProviderAnswersQuery(b)
    \/ \E b \in Broadcasts : QueryReturn(b)
    \/ \E b \in Broadcasts : BlockReturn(b)
    \/ \E b \in Broadcasts : SignReturn(b)
    \/ \E b \in Broadcasts : ProviderRejectsTransaction(b, "InvalidNonce")
    \/ \E b \in Broadcasts : SendFailRetryable(b)
    \/ \E b \in Broadcasts : SleepReturn(b)
    \/ \E b \in Broadcasts : RetriesExceeded(b)
    \/ \E k \in Keys : LedgerAdvance(k)

SpecInvalidNonceStub == InitInvalidNonceStub /\ [][NextInvalidNonceStub]_vars

----------------------------------------------------------------------------
(* The aggregation of lines 111-135 alone: a call whose first submission    *)
(* the provider accepted and answered with any of the results within the    *)
(* bound                                                                     *)

InitAggregator ==
    \E caller \in Broadcasts, key \in Keys :
        LET tx == [publicKey |-> key, nonce |-> SigningNonce(0), attempt |-> 0]
        IN /\ accessKeyByPublicKeyCache = Put(<< >>, key, 0)
           /\ ledgerNonce = [k \in Keys |-> IF k = key THEN tx.nonce ELSE 0]
           /\ signerKey = key
           /\ pc = [b \in Broadcasts |-> IF b = caller THEN "aggregate" ELSE "idle"]
           /\ i = [b \in Broadcasts |-> 0]
           /\ queryAnswer = [b \in Broadcasts |-> NoAnswer]
           /\ queryError = [b \in Broadcasts |-> "none"]
           /\ accessKeyInfo = [b \in Broadcasts |-> NoAnswer]
           /\ txHash = [b \in Broadcasts |-> IF b = caller THEN HashOf(tx) ELSE HashOf(NoTx)]
           /\ signedTx = [b \in Broadcasts |-> IF b = caller THEN tx ELSE NoTx]
           /\ \E outcomes \in OutcomeLists(MaxReceipts), st \in Statuses :
                result = [b \in Broadcasts |->
                            IF b = caller THEN ResultOf(outcomes, st) ELSE NoResult]
           /\ outcome = [b \in Broadcasts |-> NoOutcome]
           /\ inFlight = [b \in Broadcasts |-> 0]
           /\ sends = [b \in Broadcasts |-> IF b = caller THEN 1 ELSE 0]
           /\ submitted = [b \in Broadcasts |-> IF b = caller THEN HashOf(tx) ELSE HashOf(NoTx)]
           /\ sendAnswer = [b \in Broadcasts |-> "none"]
           /\ returnError = [b \in Broadcasts |-> FALSE]
           /\ highestStored = [k \in Keys |-> IF k = key THEN 0 ELSE NoAnswer]
           /\ lastError = [b \in Broadcasts |-> UNDEF]
           /\ restored = [b \in Broadcasts |-> FALSE]
           /\ logged = [b \in Broadcasts |-> FALSE]
           /\ flatLogs = [b \in Broadcasts |-> << >>]
           /\ nearNoLogs = [b \in Broadcasts |-> FALSE]
           /\ printed = [b \in Broadcasts |-> << >>]

NextAggregator == \E b \in Broadcasts : Aggregate(b)

SpecAggregator == InitAggregator /\ [][NextAggregator]_vars

----------------------------------------------------------------------------
(* Properties *)

\* C1: when every submission fails with InvalidNonce, a call makes exactly
\* 12 submissions, no more and no fewer: the retry loop ends only after the
\* 12th, with nothing to return, and the call then throws RetriesExceeded.
C1_TwelveAttemptsThenRetriesExceeded ==
    \A b \in Broadcasts :
        /\ sends[b] <= 12
        /\ pc[b] = "aggregate" => (sends[b] = 12 /\ result[b] = NoResult)
        /\ pc[b] = "done" =>
             (outcome[b].kind = "throw" /\ outcome[b].type = "RetriesExceeded")

C1_Witness ==
    \E b \in Broadcasts :
        /\ pc[b] = "done"
        /\ outcome[b].kind = "throw"
        /\ outcome[b].type = "RetriesExceeded"

\* C2: after a submission failed with InvalidNonce, until the next attempt
\* has resolved its access key, the cache holds an entry for the submitted
\* transaction's public key only if a provider query stored it after the
\* failure: the entry cached before was removed.
C2_EvictedEntryNotReturned ==
    \A b \in Broadcasts :
        ( /\ lastError[b] = "InvalidNonce"
          /\ pc[b] \in {"sleep", "findAccessKey"}
          /\ signedTx[b].publicKey \in DOMAIN accessKeyByPublicKeyCache )
        => restored[b]

C2_Witness ==
    \E b \in Broadcasts :
        /\ lastError[b] = "InvalidNonce"
        /\ pc[b] = "findAccessKey"
        /\ signedTx[b].publicKey \in DOMAIN accessKeyByPublicKeyCache
        /\ restored[b]

\* C3: the step that handles a submission failed with Expired leaves the
\* cache as it was and makes the attempt count as failed and retryable: the
\* loop counter advances and the call sleeps before the next attempt (or
\* leaves the loop after the last one), without throwing.
C3_ExpiredKeepsCache ==
    [][ \A b \in Broadcasts :
          (pc[b] = "send" /\ sendAnswer[b] = "Expired" /\ pc'[b] # "send")
          => /\ accessKeyByPublicKeyCache' = accessKeyByPublicKeyCache
             /\ i'[b] = i[b] + 1
             /\ pc'[b] = IF i[b] + 1 < 12 THEN "sleep" ELSE "aggregate"
             /\ outcome'[b] = outcome[b] ]_vars

C3_Witness ==
    \E b \in Broadcasts :
        /\ lastError[b] = "Expired"
        /\ pc[b] = "sleep"
        /\ signedTx[b].publicKey \in DOMAIN accessKeyByPublicKeyCache
        /\ accessKeyByPublicKeyCache[signedTx[b].publicKey] + 1 = signedTx[b].nonce
        /\ ~restored[b]

\* C4: the step that handles a submission failed with an error that is
\* neither InvalidNonce nor Expired ends the call: it throws that error with
\* the encoded hash of the transaction handed to the provider as context, and
\* a call that has ended does nothing more.
C4_FatalErrorEndsBroadcast ==
    [][ \A b \in Broadcasts :
          /\ ( /\ pc[b] = "send"
               /\ sendAnswer[b] \in ErrTypes \ {"InvalidNonce", "Expired"}
               /\ pc'[b] # "send" )
             => /\ pc'[b] = "done"
                /\ outcome'[b].kind = "throw"
                /\ outcome'[b].type = sendAnswer[b]
                /\ outcome'[b].context = << "b58" >> \o submitted[b]
                /\ submitted[b] = HashOf(signedTx[b])
          /\ pc[b] = "done"
             => /\ pc'[b] = "done"
                /\ outcome'[b] = outcome[b]
                /\ sends'[b] = sends[b]
                /\ inFlight'[b] = 0 ]_vars

C4_Witness ==
    \E b \in Broadcasts :
        /\ pc[b] = "done"
        /\ outcome[b].kind = "throw"
        /\ outcome[b].type = "TimeoutError"
        /\ Len(outcome[b].context) > 0

\* C5: a resolution whose query was answered can always complete, whatever
\* the other resolutions do; when it completes and the cache has no entry it
\* stores and returns the access key it fetched, and when an entry is there
\* it leaves the cache alone and returns that entry.
C5_PopulateIfAbsent ==
    /\ [](\A b \in Broadcasts :
            /\ (pc[b] = "query" /\ queryAnswer[b] = NoAnswer /\ queryError[b] = "none")
               => ENABLED ProviderAnswersQuery(b)
            /\ (pc[b] = "query" /\ queryAnswer[b] # NoAnswer)
               => ENABLED QueryReturn(b))
    /\ [][ \A b \in Broadcasts :
             (pc[b] = "query" /\ pc'[b] = "block")
             => IF signerKey \in DOMAIN accessKeyByPublicKeyCache
                THEN /\ accessKeyByPublicKeyCache' = accessKeyByPublicKeyCache
                     /\ accessKeyInfo'[b] = accessKeyByPublicKeyCache[signerKey]
                ELSE /\ DOMAIN accessKeyByPublicKeyCache' =
                          DOMAIN accessKeyByPublicKeyCache \cup {signerKey}
                     /\ accessKeyByPublicKeyCache'[signerKey] = queryAnswer[b]
                     /\ accessKeyInfo'[b] = queryAnswer[b] ]_vars

\* Two resolutions missed the cache and fetched different nonces; one has
\* committed, the other's answer is still on its way.
C5_Witness ==
    \E b, c \in Broadcasts :
        /\ b # c
        /\ pc[b] = "query"
        /\ queryAnswer[b] # NoAnswer
        /\ pc[c] = "block"
        /\ i[b] = 0
        /\ i[c] = 0
        /\ signerKey \in DOMAIN accessKeyByPublicKeyCache
        /\ accessKeyInfo[c] = accessKeyByPublicKeyCache[signerKey]
        /\ queryAnswer[b] # accessKeyByPublicKeyCache[signerKey]

\* C6, as claimed: a cached nonce is never below a nonce the cache held for
\* that key earlier.
C6_CachedNonceNeverDecreases ==
    \A k \in DOMAIN accessKeyByPublicKeyCache :
        accessKeyByPublicKeyCache[k] >= highestStored[k]

\* C6, amended: while an entry stays in the cache its nonce does not change.
C6_PresentEntryKeepsNonce ==
    [][ \A k \in Keys :
          (k \in DOMAIN accessKeyByPublicKeyCache
             /\ k \in DOMAIN accessKeyByPublicKeyCache')
          => accessKeyByPublicKeyCache'[k] = accessKeyByPublicKeyCache[k] ]_vars

\* A resolution committed while an entry with another nonce was cached, and
\* got the entry.
C6_Witness ==
    \E b \in Broadcasts :
        /\ pc[b] = "block"
        /\ signerKey \in DOMAIN accessKeyByPublicKeyCache
        /\ accessKeyInfo[b] = accessKeyByPublicKeyCache[signerKey]
        /\ ledgerNonce[signerKey] > accessKeyByPublicKeyCache[signerKey]
        /\ i[b] > 0

\* C7: a transaction is signed only by signTransaction, and its nonce is the
\* nonce of the access key findAccessKey returned in that attempt plus 1.
C7_SignedNonceIsCachedPlusOne ==
    [][ \A b \in Broadcasts :
          /\ (pc[b] = "sign" /\ pc'[b] = "send")
             => /\ accessKeyInfo[b] # NoAnswer
                /\ signedTx'[b].nonce = accessKeyInfo[b] + 1
          /\ signedTx'[b] # signedTx[b]
             => \/ pc[b] = "sign" /\ pc'[b] = "send"
                \/ pc'[b] = "done" /\ signedTx'[b] = NoTx ]_vars

C7_Witness ==
    \E b \in Broadcasts :
        /\ pc[b] = "send"
        /\ i[b] > 0
        /\ signerKey \in DOMAIN accessKeyByPublicKeyCache
        /\ signedTx[b].nonce = accessKeyByPublicKeyCache[signerKey] + 1
        /\ signedTx[b].nonce = 2

\* C8: a call has at most one submission in flight, and has one exactly while
\* it waits for sendTransaction: no other step of an attempt runs meanwhile.
C8_OneSubmissionInFlight ==
    \A b \in Broadcasts :
        /\ inFlight[b] \in {0, 1}
        /\ inFlight[b] = 1 <=> pc[b] = "send"

C8_Witness ==
    \E b \in Broadcasts :
        /\ pc[b] = "send"
        /\ inFlight[b] = 1
        /\ sends[b] = 3

\* C9, as claimed: with returnError not set, the call throws exactly when the
\* status has a non-null Failure object; if the Failure has error_message and
\* error_type the error's type is error_type and its message contains
\* error_message, otherwise the error is parseResultError's.
C9_FailureRaisesTypedError ==
    [][ \A b \in Broadcasts :
          ( /\ pc[b] = "aggregate"
            /\ result[b] # NoResult
            /\ pc'[b] = "done"
            /\ ~returnError'[b] )
          => LET st == result[b].status
                 err == outcome'[b]
             IN /\ err.kind = "throw" <=> st.tag = "Failure"
                /\ st.tag = "Failure"
                   => IF st.error_message # UNDEF /\ st.error_type # UNDEF
                      THEN /\ err.type = st.error_type
                           /\ \E n \in DOMAIN err.message :
                                err.message[n] = st.error_message
                      ELSE err = parseResultError(result[b]) ]_vars

\* C9, the part the code keeps: the same with "has" read as the code's
\* truthiness test, so that an empty error_message or error_type counts as
\* missing.
C9_NonEmptyFieldsRaiseTypedError ==
    [][ \A b \in Broadcasts :
          ( /\ pc[b] = "aggregate"
            /\ result[b] # NoResult
            /\ pc'[b] = "done"
            /\ ~returnError'[b] )
          => LET st == result[b].status
                 err == outcome'[b]
             IN /\ err.kind = "throw" <=> st.tag = "Failure"
                /\ st.tag = "Failure"
                   => IF st.error_message \notin {UNDEF, ""}
                         /\ st.error_type \notin {UNDEF, ""}
                      THEN /\ err.type = st.error_type
                           /\ \E n \in DOMAIN err.message :
                                err.message[n] = st.error_message
                      ELSE err = parseResultError(result[b]) ]_vars

\* C10: with returnError set, a result whose status is a structured Failure
\* is returned as it came from the provider, and nothing is thrown.
C10_ReturnErrorReturnsOutcome ==
    [][ \A b \in Broadcasts :
          ( /\ pc[b] = "aggregate"
            /\ result[b] # NoResult
            /\ result[b].status.tag = "Failure"
            /\ pc'[b] = "done"
            /\ returnError'[b] )
          => /\ outcome'[b].kind = "return"
             /\ outcome'[b].value = result[b] ]_vars

C10_Witness ==
    \E b \in Broadcasts :
        /\ pc[b] = "done"
        /\ returnError[b]
        /\ outcome[b].kind = "return"
        /\ outcome[b].value.status.tag = "Failure"

\* The outcomes of a result, in the order of traversal.
OutcomesOf(res) == << res.transaction_outcome >> \o res.receipts_outcome

\* The places, in traversal order, of the outcomes whose logs are non-empty
\* or whose status is a structured failure (a Failure that is an object and
\* not null, as for the overall status).
ReportedPlaces(res) ==
    { k \in DOMAIN OutcomesOf(res) :
        \/ OutcomesOf(res)[k].logs # << >>
        \/ OutcomesOf(res)[k].status = "Failure" }

\* recs holds one record for each outcome at the places, in the order of
\* the places, with that outcome's receipt ids and logs.
IsProjection(recs, res, places) ==
    /\ Len(recs) = Cardinality(places)
    /\ \E at \in [DOMAIN recs -> places] :
         /\ \A m, n \in DOMAIN recs : m < n => at[m] < at[n]
         /\ \A m \in DOMAIN recs :
              /\ recs[m].receiptIds = OutcomesOf(res)[at[m]].receipt_ids
              /\ recs[m].logs = OutcomesOf(res)[at[m]].logs

\* C11, as claimed: the records handed to printLogsAndFailures are, in
\* traversal order, those of exactly the outcomes whose logs are non-empty
\* or whose status is a structured failure, each with the outcome's receipt
\* ids and logs.
C11_RecordsAreReportedOutcomes ==
    [][ \A b \in Broadcasts :
          (pc[b] = "aggregate" /\ result[b] # NoResult /\ pc'[b] = "done")
          => IsProjection(flatLogs'[b], result[b], ReportedPlaces(result[b])) ]_vars

\* C11, the part the code keeps: the same for results none of whose outcomes
\* has a null Failure.
C11_RecordsWithoutNullFailure ==
    [][ \A b \in Broadcasts :
          ( /\ pc[b] = "aggregate"
            /\ result[b] # NoResult
            /\ pc'[b] = "done"
            /\ \A k \in DOMAIN OutcomesOf(result[b]) :
                 OutcomesOf(result[b])[k].status # "FailureNull" )
          => IsProjection(flatLogs'[b], result[b], ReportedPlaces(result[b])) ]_vars

\* C12: when the access-key query fails with AccessKeyDoesNotExist,
\* findAccessKey returns null and nothing is thrown; when it fails with
\* another error, that error is thrown as it came; the cache is left as it
\* was in both cases.
C12_QueryFailureNullOrRethrown ==
    [][ \A b \in Broadcasts :
          (pc[b] = "query" /\ queryError[b] # "none" /\ pc'[b] # "query")
          => /\ accessKeyByPublicKeyCache' = accessKeyByPublicKeyCache
             /\ IF queryError[b] = "AccessKeyDoesNotExist"
                THEN /\ accessKeyInfo'[b] = NoAccessKey
                     /\ pc'[b] = "signTransaction"
                     /\ outcome'[b] = outcome[b]
                ELSE /\ pc'[b] = "done"
                     /\ outcome'[b].kind = "throw"
                     /\ outcome'[b].type = queryError[b]
                     /\ outcome'[b].message = << "query" >>
                     /\ outcome'[b].context = << >> ]_vars

\* findAccessKey returned null to a call while the cache holds the entry
\* another call stored.
C12_Witness ==
    \E b \in Broadcasts :
        /\ pc[b] = "signTransaction"
        /\ accessKeyInfo[b] = NoAccessKey
        /\ outcome[b] = NoOutcome
        /\ signerKey \in DOMAIN accessKeyByPublicKeyCache

\* C13, as claimed: when the signer has no public key, the call ends with an
\* error of type KeyNotFound.
C13_NoSignerKeyIsKeyNotFound ==
    \A b \in Broadcasts :
        (signerKey = NoKey /\ pc[b] = "done")
        => (outcome[b].kind = "throw" /\ outcome[b].type = "KeyNotFound")

\* C13, amended: when the signer has no public key, the call ends with an
\* error of type PublicKeyNotFound; no provider query is made and the cache
\* stays as it was.
C13_NoSignerKeyIsPublicKeyNotFound ==
    signerKey = NoKey
    => /\ accessKeyByPublicKeyCache = << >>
       /\ \A b \in Broadcasts :
            /\ pc[b] \in {"idle", "findAccessKey", "done"}
            /\ queryAnswer[b] = NoAnswer
            /\ queryError[b] = "none"
            /\ pc[b] = "done"
               => /\ outcome[b].kind = "throw"
                  /\ outcome[b].type = "PublicKeyNotFound"
                  /\ outcome[b].context = << >>

C13_Witness ==
    /\ signerKey = NoKey
    /\ \E b \in Broadcasts :
         /\ pc[b] = "done"
         /\ outcome[b].type = "PublicKeyNotFound"

\* C14: a call to which findAccessKey returned nothing ends there with
\* KeyNotFound: its next step throws, without a block fetch, a signature or
\* a submission, whatever the attempt, and a call that has ended starts no
\* attempt.
C14_KeyNotFoundEndsBroadcast ==
    [][ \A b \in Broadcasts :
          /\ (pc[b] = "signTransaction" /\ pc'[b] # "signTransaction")
             => /\ accessKeyInfo[b] = NoAccessKey
                /\ pc'[b] = "done"
                /\ outcome'[b].kind = "throw"
                /\ outcome'[b].type = "KeyNotFound"
                /\ inFlight'[b] = 0
                /\ i'[b] = 0
          /\ (pc[b] = "done" /\ outcome[b].type = "KeyNotFound")
             => (pc'[b] = "done" /\ outcome'[b] = outcome[b] /\ sends'[b] = 0) ]_vars

\* The call ended with KeyNotFound in an attempt after the first: the entry
\* was evicted and the query then found no access key.
C14_Witness ==
    \E b \in Broadcasts :
        /\ pc[b] = "signTransaction"
        /\ accessKeyInfo[b] = NoAccessKey
        /\ i[b] = 2
        /\ sends[b] = 2

\* The error was made from the status of the provider's result (lines
\* 124-133): the old format's TypedError or parseResultError's error.
FromStructuredFailure(e) ==
    /\ e.kind = "throw"
    /\ \/ e.payload.tag = "Failure"
       \/ (Len(e.message) = 4 /\ e.message[1] = "Transaction ")

\* C15, as claimed: whenever a call has thrown, printLogsAndFailures was
\* called for it before.
C15_LoggedBeforeAnyError ==
    \A b \in Broadcasts :
        (pc[b] = "done" /\ outcome[b].kind = "throw") => logged[b]

\* C15, amended: a call that has thrown an error made from the status of
\* the result had printLogsAndFailures called before, with the records of
\* that result; a call that has thrown any other error had no result, and
\* printLogsAndFailures was not called.
C15_LoggedBeforeStatusError ==
    \A b \in Broadcasts :
        (pc[b] = "done" /\ outcome[b].kind = "throw")
        => /\ logged[b] <=> FromStructuredFailure(outcome[b])
           /\ ~logged[b] => (flatLogs[b] = << >> /\ printed[b] = << >>)

C15_Witness ==
    \E b \in Broadcasts :
        /\ pc[b] = "done"
        /\ FromStructuredFailure(outcome[b])
        /\ logged[b]
        /\ Len(printed[b]) > 0

\* C16, as claimed: a call that has ended returned a result or threw
\* KeyNotFound, RetriesExceeded, an error made from a structured failure, or
\* a submission failure other than InvalidNonce and Expired annotated with
\* the transaction's hash.
C16_ErrorsWithinTaxonomy ==
    \A b \in Broadcasts :
        pc[b] = "done"
        => \/ outcome[b].kind = "return"
           \/ /\ outcome[b].kind = "throw"
              /\ \/ outcome[b].type = "KeyNotFound"
                 \/ outcome[b].type = "RetriesExceeded"
                 \/ FromStructuredFailure(outcome[b])
                 \/ /\ outcome[b].context # << >>
                    /\ outcome[b].type \notin {"InvalidNonce", "Expired"}

\* C16, amended: the same, or PublicKeyNotFound, or the error the access-key
\* query, the block fetch or the external signer failed with, thrown as it
\* came and without a context.
C16_ErrorsWithinWiderTaxonomy ==
    \A b \in Broadcasts :
        pc[b] = "done"
        => \/ outcome[b].kind = "return"
           \/ /\ outcome[b].kind = "throw"
              /\ \/ outcome[b].type = "KeyNotFound"
                 \/ outcome[b].type = "RetriesExceeded"
                 \/ FromStructuredFailure(outcome[b])
                 \/ /\ outcome[b].message = << "send" >>
                    /\ outcome[b].context # << >>
                    /\ outcome[b].type \notin {"InvalidNonce", "Expired"}
                 \/ outcome[b].type = "PublicKeyNotFound"
                 \/ /\ outcome[b].message \in {<< "query" >>, << "block" >>, << "sign" >>}
                    /\ outcome[b].context = << >>
                    /\ outcome[b].type \in QueryErrTypes \cup LookupErrTypes
                    /\ outcome[b].type # "AccessKeyDoesNotExist"

\* One call ended with the block fetch's error, the other with an annotated
\* submission failure.
C16_Witness ==
    \E b, c \in Broadcasts :
        /\ pc[b] = "done"
        /\ outcome[b].message = << "block" >>
        /\ pc[c] = "done"
        /\ outcome[c].message = << "send" >>

\* C17: once the provider's result has come back the retry loop is left
\* with it, no attempt follows, and a result whose status is not a
\* structured failure is returned to the caller as it came: same status,
\* same transaction outcome, same receipt outcomes.
C17_SuccessReturnsResultUnchanged ==
    [][ \A b \in Broadcasts :
          /\ (pc[b] = "send" /\ sendAnswer[b] = "ok" /\ pc'[b] # "send")
             => /\ pc'[b] = "aggregate"
                /\ result'[b] # NoResult
                /\ i'[b] = i[b]
                /\ sends'[b] = sends[b]
          /\ (pc[b] = "aggregate" /\ result[b] # NoResult)
             => /\ result'[b] = result[b] \/ pc'[b] = "done"
                /\ pc'[b] \in {"aggregate", "done"}
                /\ inFlight'[b] = 0
          /\ ( /\ pc[b] = "aggregate"
               /\ result[b] # NoResult
               /\ result[b].status.tag # "Failure"
               /\ pc'[b] = "done" )
             => /\ outcome'[b].kind = "return"
                /\ outcome'[b].value.status = result[b].status
                /\ outcome'[b].value.transaction_outcome = result[b].transaction_outcome
                /\ outcome'[b].value.receipts_outcome = result[b].receipts_outcome ]_vars

\* A result with two receipt outcomes was returned although returnError was
\* not set and the status has a Failure member, which is null.
C17_Witness ==
    \E b \in Broadcasts :
        /\ pc[b] = "done"
        /\ ~returnError[b]
        /\ outcome[b].kind = "return"
        /\ outcome[b].value.status.tag = "FailureNull"
        /\ Len(outcome[b].value.receipts_outcome) = 2

\* C18: NEAR_NO_LOGS is read by the step that prints the logs and by no
\* other.  Whatever the flag, that step ends the call with what the result
\* and returnError alone decide, hands the same records to
\* printLogsAndFailures, and touches neither the cache nor the ledger nor
\* another call; the flag decides only whether the console lines are
\* written.
C18_NoLogsFlagOnlySilences ==
    [][ \A b \in Broadcasts :
          IF pc[b] = "aggregate" /\ result[b] # NoResult /\ pc'[b] = "done"
          THEN /\ nearNoLogs'[b] => printed'[b] = << >>
               /\ (~nearNoLogs'[b] /\ flatLogs'[b] # << >>) => printed'[b] # << >>
               /\ outcome'[b] = FinalStatus(result[b], returnError'[b])
               /\ flatLogs'[b] = FlatLogs(result[b])
               /\ logged'[b]
               /\ accessKeyByPublicKeyCache' = accessKeyByPublicKeyCache
               /\ ledgerNonce' = ledgerNonce
               /\ inFlight' = inFlight
               /\ \A c \in Broadcasts \ {b} :
                    /\ pc'[c] = pc[c]
                    /\ i'[c] = i[c]
                    /\ sends'[c] = sends[c]
                    /\ outcome'[c] = outcome[c]
          ELSE /\ nearNoLogs'[b] = nearNoLogs[b]
               /\ printed'[b] = printed[b] ]_vars

\* A call ran with the flag set and threw the error of its result's status:
\* the records were handed over and nothing was written.
C18_Witness ==
    \E b \in Broadcasts :
        /\ pc[b] = "done"
        /\ nearNoLogs[b]
        /\ ~returnError[b]
        /\ outcome[b].kind = "throw"
        /\ logged[b]
        /\ flatLogs[b] # << >>
        /\ printed[b] = << >>

\* C19: the transaction a call has with the provider was signed in the
\* attempt that submitted it; and within a call a submission follows a
\* signature, a signature a block fetch, a block fetch an access-key
\* resolution, an access-key resolution the start of the call or the delay
\* after a failed attempt.
C19_FreshTransactionEveryAttempt ==
    /\ [](\A b \in Broadcasts :
            pc[b] = "send"
            => /\ signedTx[b].attempt = i[b]
               /\ submitted[b] = HashOf(signedTx[b])
               /\ sends[b] = i[b] + 1)
    /\ [][ \A b \in Broadcasts :
             /\ (pc'[b] = "send" /\ pc[b] # "send")
                => (pc[b] = "sign" /\ signedTx'[b].attempt = i[b])
             /\ (pc'[b] = "sign" /\ pc[b] # "sign") => pc[b] = "block"
             /\ (pc'[b] = "block" /\ pc[b] # "block")
                => pc[b] \in {"findAccessKey", "query"}
             /\ (pc'[b] = "query" /\ pc[b] # "query") => pc[b] = "findAccessKey"
             /\ (pc'[b] = "findAccessKey" /\ pc[b] # "findAccessKey")
                => pc[b] \in {"idle", "sleep"}
             /\ (pc'[b] = "sleep" /\ pc[b] # "sleep")
                => (pc[b] = "send" /\ i'[b] = i[b] + 1)
             /\ sends'[b] > sends[b] => (pc[b] = "sign" /\ sends'[b] = sends[b] + 1) ]_vars

\* The third attempt's transaction is with the provider; the cache entry
\* was kept since the first attempt, so it has the nonce and the key of the
\* transactions the two attempts before signed.
C19_Witness ==
    \E b \in Broadcasts :
        /\ pc[b] = "send"
        /\ i[b] = 2
        /\ signedTx[b].attempt = 2
        /\ signedTx[b].nonce = accessKeyByPublicKeyCache[signedTx[b].publicKey] + 1
        /\ highestStored[signedTx[b].publicKey] = 0
        /\ ledgerNonce[signedTx[b].publicKey] = 0

\* C20: a resolution that finds the signer's key in the cache returns the
\* entry and goes on to the block fetch, with no provider query; a provider
\* query is started only by a resolution that finds no entry.
C20_CacheHitMakesNoQuery ==
    [][ \A b \in Broadcasts :
          /\ ( /\ pc[b] = "findAccessKey"
               /\ signerKey \in DOMAIN accessKeyByPublicKeyCache
               /\ pc'[b] # "findAccessKey" )
             => /\ pc'[b] = "block"
                /\ accessKeyInfo'[b] = accessKeyByPublicKeyCache[signerKey]
                /\ accessKeyByPublicKeyCache' = accessKeyByPublicKeyCache
                /\ queryAnswer'[b] = NoAnswer
                /\ queryError'[b] = "none"
          /\ (pc'[b] = "query" /\ pc[b] # "query")
             => /\ pc[b] = "findAccessKey"
                /\ signerKey \notin DOMAIN accessKeyByPublicKeyCache ]_vars

\* A call's first resolution found the entry another call had stored.
C20_Witness ==
    \E b, c \in Broadcasts :
        /\ b # c
        /\ pc[b] = "block"
        /\ i[b] = 0
        /\ signerKey \in DOMAIN accessKeyByPublicKeyCache
        /\ accessKeyInfo[b] = accessKeyByPublicKeyCache[signerKey]
        /\ pc[c] = "send"
        /\ queryAnswer[b] = NoAnswer

\* C21: a call never makes more than 12 submissions, whatever its
\* collaborators answer and whatever the other calls do to the cache and to
\* the ledger; and when every collaborator call and every delay returns, a
\* call that has started ends: it returns the result or throws.
C21_AtMostTwelveSubmissionsAndEnds ==
    /\ [](\A b \in Broadcasts : sends[b] <= 12 /\ i[b] <= 12)
    /\ \A b \in Broadcasts :
         (pc[b] # "idle") ~> (pc[b] = "done" /\ outcome[b].kind \in {"return", "throw"})

\* The twelfth submission of the call failed with InvalidNonce after another
\* call had stored the entry again.
C21_Witness ==
    \E b \in Broadcasts :
        /\ pc[b] = "aggregate"
        /\ result[b] = NoResult
        /\ sends[b] = 12
        /\ lastError[b] = "InvalidNonce"
        /\ signerKey \in DOMAIN accessKeyByPublicKeyCache

\* Both calls have signed a transaction for the same key with the same
\* nonce, and c has submitted its own and has not ended.
SignedSameNonce(b, c) ==
    /\ b # c
    /\ signedTx[b] # NoTx
    /\ signedTx[b].publicKey = signedTx[c].publicKey
    /\ signedTx[b].nonce = signedTx[c].nonce
    /\ pc[c] \in {"send", "aggregate"}

\* The ledger took the transaction the call submitted.
Accepted(b) ==
    \/ pc[b] = "send" /\ sendAnswer[b] = "ok"
    \/ pc[b] = "aggregate" /\ result[b] # NoResult

\* C22: when two calls have signed with the same nonce, the ledger does not
\* take both transactions; and the call whose submission fails with
\* InvalidNonce deletes the key's cache entry and goes on to its next attempt
\* (or, after the twelfth, leaves the loop) in that very step, whatever the
\* other call is doing, and without ending.
C22_SameNonceLoserEvictsAndRetries ==
    /\ [](\A b, c \in Broadcasts :
            SignedSameNonce(b, c) => ~(Accepted(b) /\ Accepted(c)))
    /\ [][\A b, c \in Broadcasts :
            (/\ SignedSameNonce(b, c)
             /\ pc[b] = "send"
             /\ sendAnswer[b] = "InvalidNonce"
             /\ pc'[b] # pc[b])
            => /\ signedTx[b].publicKey \notin DOMAIN accessKeyByPublicKeyCache'
               /\ i'[b] = i[b] + 1
               /\ pc'[b] = IF i[b] + 1 < 12 THEN "sleep" ELSE "aggregate"
               /\ result'[b] = NoResult
               /\ outcome'[b] = outcome[b]
               /\ pc'[c] = pc[c]
               /\ sendAnswer'[c] = sendAnswer[c]]_vars

\* Both calls signed with nonce 1 from the same cache entry; the ledger took
\* one transaction, whose outcome has not come back yet, and the other call,
\* failed with InvalidNonce, is already fetching the block of its second
\* attempt, the entry having been deleted.
C22_Witness ==
    \E b, c \in Broadcasts :
        /\ SignedSameNonce(b, c)
        /\ pc[c] = "send"
        /\ sendAnswer[c] = "ok"
        /\ signedTx[c].attempt = 0
        /\ signedTx[b].attempt = 0
        /\ i[b] = 1
        /\ lastError[b] = UNDEF
        /\ pc[b] = "query"
        /\ signerKey \notin DOMAIN accessKeyByPublicKeyCache

\* C23: a call starts a delay only in the step in which its submission
\* failed with InvalidNonce or Expired, and only when another attempt is
\* left, which the end of the delay starts; a call whose submission was
\* accepted goes on to the aggregation and from there to its end, and a
\* call whose submission failed with another error ends in that step.
C23_DelayOnlyBetweenRetryableAttempts ==
    /\ [](\A b \in Broadcasts :
            pc[b] = "sleep"
            => /\ lastError[b] \in {"InvalidNonce", "Expired"}
               /\ i[b] > 0
               /\ i[b] < 12
               /\ result[b] = NoResult
               /\ outcome[b] = NoOutcome)
    /\ [][\A b \in Broadcasts :
            /\ (pc'[b] = "sleep" /\ pc[b] # "sleep")
               => /\ pc[b] = "send"
                  /\ sendAnswer[b] \in {"InvalidNonce", "Expired"}
                  /\ i'[b] = i[b] + 1
            /\ (pc[b] = "sleep" /\ pc'[b] # "sleep")
               => pc'[b] = "findAccessKey" /\ i'[b] = i[b]
            /\ (pc[b] = "send" /\ sendAnswer[b] = "ok" /\ pc'[b] # pc[b])
               => pc'[b] = "aggregate" /\ result'[b] # NoResult
            /\ (pc[b] = "aggregate" /\ pc'[b] # pc[b])
               => pc'[b] = "done"
            /\ (/\ pc[b] = "send"
                /\ sendAnswer[b] \notin {"none", "ok", "InvalidNonce", "Expired"}
                /\ pc'[b] # pc[b])
               => pc'[b] = "done" /\ outcome'[b].kind = "throw"
            /\ pc[b] = "done" => pc'[b] = "done"]_vars

\* One call is in the delay before its twelfth attempt, its eleventh
\* submission having failed with Expired, while the other has ended with
\* the provider's result.
C23_Witness ==
    \E b, c \in Broadcasts :
        /\ pc[b] = "sleep"
        /\ i[b] = 11
        /\ lastError[b] = "Expired"
        /\ pc[c] = "done"
        /\ outcome[c].kind = "return"

\* C24: no step from the acceptance of a call's transaction to the call's
\* end changes the cache, so the key's entry is not advanced to the nonce
\* just used; and while both calls are in their first attempt or not yet
\* started (so that no entry was ever deleted), the entry holds the nonce the
\* accepted transaction was signed from, which the other call resolves in
\* its first attempt, signing with the accepted transaction's nonce.
C24_SuccessLeavesCacheAndNextSignsSameNonce ==
    /\ [][\A b \in Broadcasts :
            ((~Accepted(b) /\ Accepted(b)') \/ (Accepted(b) /\ pc'[b] # pc[b]))
            => accessKeyByPublicKeyCache' = accessKeyByPublicKeyCache]_vars
    /\ [](\A b, c \in Broadcasts :
            (b # c /\ Accepted(b) /\ i[b] = 0 /\ i[c] = 0 /\ pc[c] # "done")
            => /\ signedTx[b].publicKey \in DOMAIN accessKeyByPublicKeyCache
               /\ accessKeyByPublicKeyCache[signedTx[b].publicKey] + 1 = signedTx[b].nonce
               /\ pc[c] \in {"block", "sign"}
                  => accessKeyInfo[c] + 1 = signedTx[b].nonce
               /\ pc[c] \in {"send", "aggregate"}
                  => signedTx[c].nonce = signedTx[b].nonce)

\* The first call's transaction, signed with nonce 1 from the entry 0, was
\* accepted and its result has come back; the other call, which found the
\* entry 0 still there, has signed nonce 1 again in its first attempt and the
\* provider has answered InvalidNonce.
C24_Witness ==
    \E b, c \in Broadcasts :
        /\ b # c
        /\ pc[b] = "aggregate"
        /\ result[b] # NoResult
        /\ i[b] = 0
        /\ signedTx[b].nonce = 1
        /\ ledgerNonce[signedTx[b].publicKey] = 1
        /\ accessKeyByPublicKeyCache[signedTx[b].publicKey] = 0
        /\ pc[c] = "send"
        /\ i[c] = 0
        /\ signedTx[c].nonce = 1
        /\ sendAnswer[c] = "InvalidNonce"

\* The step ends the call with this error, thrown without a context; the
\* cache is left as it is and nothing is submitted.
EndsWith(b, type, message) ==
    /\ pc'[b] = "done"
    /\ outcome'[b] = Thrown(type, message, << >>)
    /\ accessKeyByPublicKeyCache' = accessKeyByPublicKeyCache
    /\ inFlight'[b] = inFlight[b]
    /\ ledgerNonce' = ledgerNonce

\* C25: the step a call takes when its access-key query, its block fetch or
\* the external signer has failed ends the call with that error, whatever
\* its type, InvalidNonce and Expired included: thrown without a context,
\* nothing submitted, the cache as it was; the call takes no step after it.
\* A query that failed with AccessKeyDoesNotExist ends the call the same way
\* with KeyNotFound, the error signTransaction makes of it.
C25_SigningErrorEndsBroadcast ==
    [][\A b \in Broadcasts :
        /\ (/\ pc[b] = "query"
            /\ queryError[b] \notin {"none", "AccessKeyDoesNotExist"}
            /\ pc'[b] # pc[b])
           => EndsWith(b, queryError[b], << "query" >>)
        /\ (pc[b] = "query" /\ queryError[b] = "AccessKeyDoesNotExist" /\ pc'[b] # pc[b])
           => /\ pc'[b] = "signTransaction"
              /\ accessKeyInfo'[b] = NoAccessKey
              /\ accessKeyByPublicKeyCache' = accessKeyByPublicKeyCache
              /\ i'[b] = i[b]
        /\ (pc[b] = "signTransaction" /\ accessKeyInfo[b] = NoAccessKey /\ pc'[b] # pc[b])
           => EndsWith(b, "KeyNotFound", << "Can not sign transactions" >>)
        /\ (pc[b] = "block" /\ pc'[b] \notin {"block", "sign"})
           => \E type \in SigningErrTypes : EndsWith(b, type, << "block" >>)
        /\ (pc[b] = "sign" /\ pc'[b] \notin {"sign", "send"})
           => \E type \in SigningErrTypes : EndsWith(b, type, << "sign" >>)
        /\ pc[b] = "done"
           => /\ pc'[b] = "done"
              /\ outcome'[b] = outcome[b]
              /\ inFlight'[b] = inFlight[b]]_vars

\* The external signer failed with InvalidNonce in a call that had found the
\* key's entry in the cache: the call has ended with that error, without a
\* context, and the entry is still there.
C25_Witness ==
    \E b \in Broadcasts :
        /\ pc[b] = "done"
        /\ outcome[b] = Thrown("InvalidNonce", << "sign" >>, << >>)
        /\ signerKey \in DOMAIN accessKeyByPublicKeyCache
        /\ accessKeyByPublicKeyCache[signerKey] = ledgerNonce[signerKey]
        /\ highestStored[signerKey] = accessKeyByPublicKeyCache[signerKey]

====
